---- MODULE Spec2Model ----
(***************************************************************************)
(* niqqud: removal of Hebrew diacritics (and, thoroughly, Hebrew quotes)   *)
(* from a string.  A model of src/src/lib.rs.                              *)
(*                                                                         *)
(* A Rust &str is a sequence of bytes holding valid UTF-8.  The library    *)
(* decodes it into chars (Unicode scalar values, modelled as naturals),    *)
(* filters the chars with the two range predicates, and collects the kept  *)
(* chars into a newly encoded string.                                      *)
(***************************************************************************)
EXTENDS Naturals, Sequences, FiniteSets

VARIABLES
    string,     \* the caller's text (UTF-8 bytes), borrowed immutably by every call
    res,        \* res[chain]: Some(the string the chain of calls returned), or None
    c,          \* Some(the char handed to the private predicates), or None
    diacritic,  \* Some(what is_diacritic(c) returned), or None
    special     \* Some(what is_special(c) returned), or None

vars == <<string, res, c, diacritic, special>>

\* an Option: None before the call, Some(x) once it returned x
None == <<>>
Some(x) == <<x>>

----------------------------------------------------------------------------
(* Bounds of the model *)

\* longest caller text, in chars
MaxLen == 3

\* how far below U+0590 and above U+05FF the predicates are sampled densely
SampleMargin == 16

----------------------------------------------------------------------------
(* Code points named by the source *)

\* '\u{0590}', first char of the is_diacritic pattern
DiacriticFirst == 1424
\* '\u{05CF}', last char of the is_diacritic pattern
DiacriticLast == 1487
\* '\u{05EB}', first char of the is_special pattern
SpecialFirst == 1515
\* '\u{05FF}', last char of the is_special pattern
SpecialLast == 1535
\* U+05F4 HEBREW PUNCTUATION GERSHAYIM, the double quote of the examples
Gershayim == 1524
\* U+05F3 HEBREW PUNCTUATION GERESH, the single quote of the docs
Geresh == 1523
\* U+05E9 HEBREW LETTER SHIN, first letter of the test's text
Shin == 1513
\* U+05B8 HEBREW POINT QAMATS, first point of the test's text
Qamats == 1464
\* U+0020 SPACE, between the two words of the test's text
Space == 32
\* U+05C3 HEBREW PUNCTUATION SOF PASUQ, of the chart the crate docs refer to
SofPasuq == 1475

\* chars outside the Hebrew block: U+FB2E (Hebrew presentation form, three
\* bytes of UTF-8) and U+1F600 (four bytes)
OtherChars == {64302, 128512}

\* the chars the caller's text is made of
Alphabet ==
    {Space, Shin, Qamats, SofPasuq, DiacriticLast, SpecialLast, Gershayim, Geresh}
        \cup OtherChars

\* the chars the predicates are called with: every char around the two
\* ranges, and the ends of the UTF-8 length classes and of the scalar values
CharSample ==
    ((DiacriticFirst - SampleMargin) .. (SpecialLast + SampleMargin))
        \cup {0, 127, 128, 2047, 2048, 55295, 57344, 65535, 65536, 1114111}
        \cup Alphabet

----------------------------------------------------------------------------
(* str <-> chars: UTF-8 *)

\* char::encode_utf8, as String::push does for each collected char
EncodeUtf8(ch) ==
    IF ch < 128 THEN <<ch>>
    ELSE IF ch < 2048 THEN <<192 + (ch \div 64), 128 + (ch % 64)>>
    ELSE IF ch < 65536 THEN
        <<224 + (ch \div 4096), 128 + ((ch \div 64) % 64), 128 + (ch % 64)>>
    ELSE
        <<240 + (ch \div 262144), 128 + ((ch \div 4096) % 64),
          128 + ((ch \div 64) % 64), 128 + (ch % 64)>>

\* width of the UTF-8 sequence that starts with byte b
Utf8Width(b) ==
    IF b < 128 THEN 1 ELSE IF b < 224 THEN 2 ELSE IF b < 240 THEN 3 ELSE 4

\* the char held by the first Utf8Width(s[1]) bytes of s
DecodeFirst(s) ==
    LET w == Utf8Width(s[1]) IN
    IF w = 1 THEN s[1]
    ELSE IF w = 2 THEN (s[1] % 32) * 64 + (s[2] % 64)
    ELSE IF w = 3 THEN (s[1] % 16) * 4096 + (s[2] % 64) * 64 + (s[3] % 64)
    ELSE (s[1] % 8) * 262144 + (s[2] % 64) * 4096 + (s[3] % 64) * 64 + (s[4] % 64)

RECURSIVE Chars(_)
\* string.chars(): the chars of a str, in order
Chars(s) ==
    IF s = <<>> THEN <<>>
    ELSE <<DecodeFirst(s)>> \o Chars(SubSeq(s, Utf8Width(s[1]) + 1, Len(s)))

RECURSIVE Collect(_)
\* .collect(): the kept chars pushed one by one onto a new String
Collect(cs) ==
    IF cs = <<>> THEN <<>>
    ELSE EncodeUtf8(Head(cs)) \o Collect(Tail(cs))

----------------------------------------------------------------------------
(* The two private predicates *)

\* the half-open range U+0590..U+05CF, excluding its last char
is_diacritic_exclusive(ch) == DiacriticFirst <= ch /\ ch < DiacriticLast

\* the vowel points U+05B0..U+05C2 alone, without accents and punctuation
is_diacritic_niqqud_only(ch) == 1456 <= ch /\ ch <= 1474

\* matches!(c, '\u{0590}'..='\u{05CF}')
is_diacritic(ch) == DiacriticFirst <= ch /\ ch <= DiacriticLast

\* the quotes alone, not the whole range
is_special_quotes_only(ch) == ch \in {Geresh, Gershayim}

\* matches!(c, '\u{05EB}'..='\u{05FF}')
is_special(ch) == SpecialFirst <= ch /\ ch <= SpecialLast

----------------------------------------------------------------------------
(* The two public functions *)

\* filtering that stops at the first removable char
remove_truncating(s) ==
    LET cs == Chars(s)
        bad == {i \in 1 .. Len(cs) : is_diacritic(cs[i])}
        n == IF bad = {} THEN Len(cs)
             ELSE (CHOOSE i \in bad : \A j \in bad : i <= j) - 1
    IN Collect(SubSeq(cs, 1, n))

RECURSIVE DropSkipping(_)
\* removal in place while iterating: the char after a removed one is not looked at
DropSkipping(cs) ==
    IF cs = <<>> THEN <<>>
    ELSE IF is_diacritic(Head(cs)) THEN
        (IF Len(cs) = 1 THEN <<>>
         ELSE <<cs[2]>> \o DropSkipping(SubSeq(cs, 3, Len(cs))))
    ELSE <<Head(cs)>> \o DropSkipping(Tail(cs))

\* removal that skips the char following each removed char
remove_skipping(s) == Collect(DropSkipping(Chars(s)))

\* diacritics replaced by spaces instead of being dropped
remove_blanking(s) ==
    LET cs == Chars(s) IN
    Collect([i \in 1 .. Len(cs) |-> IF is_diacritic(cs[i]) THEN Space ELSE cs[i]])

\* remove that consults is_special too
remove_dropping_special(s) ==
    Collect(SelectSeq(Chars(s), LAMBDA ch : ~is_diacritic(ch) /\ ~is_special(ch)))

\* string.chars().filter(|&c| !is_diacritic(c)).collect()
remove(s) == Collect(SelectSeq(Chars(s), LAMBDA ch : ~is_diacritic(ch)))

\* a filter that keeps the char when either test fails
remove_thorough_or(s) ==
    Collect(SelectSeq(Chars(s), LAMBDA ch : ~is_diacritic(ch) \/ ~is_special(ch)))

\* a filter that forgets the diacritics
remove_thorough_special_only(s) ==
    Collect(SelectSeq(Chars(s), LAMBDA ch : ~is_special(ch)))

RECURSIVE TrimSpecial(_)
\* cs without the special chars at its two ends
TrimSpecial(cs) ==
    IF cs = <<>> THEN <<>>
    ELSE IF is_special(Head(cs)) THEN TrimSpecial(Tail(cs))
    ELSE IF is_special(cs[Len(cs)]) THEN TrimSpecial(SubSeq(cs, 1, Len(cs) - 1))
    ELSE cs

\* quotes trimmed from the ends of the text only, as trim_matches would
remove_thorough_trimming(s) ==
    Collect(TrimSpecial(SelectSeq(Chars(s), LAMBDA ch : ~is_diacritic(ch))))

\* string.chars().filter(|&c| !is_diacritic(c) && !is_special(c)).collect()
remove_thorough(s) ==
    Collect(SelectSeq(Chars(s), LAMBDA ch : ~is_diacritic(ch) /\ ~is_special(ch)))

----------------------------------------------------------------------------
(* The caller: texts, and chains of at most two calls on one text *)

RECURSIVE CharSeqs(_)
\* every sequence of at most n chars of the alphabet
CharSeqs(n) ==
    IF n = 0 THEN {<<>>}
    ELSE LET shorter == CharSeqs(n - 1) IN
         shorter \cup {Append(cs, ch) : cs \in shorter, ch \in Alphabet}

\* the valid UTF-8 strings a caller may pass
Strings == {Collect(cs) : cs \in CharSeqs(MaxLen)}

Fns == {"remove", "remove_thorough"}

\* a chain <<f>> is f(string); a chain <<f, g>> is g(f(string))
Chains == {<<f>> : f \in Fns} \cup {<<f, g>> : f \in Fns, g \in Fns}

\* the argument of the last call of a chain
Arg(chain) ==
    IF Len(chain) = 1 THEN Some(string) ELSE res[SubSeq(chain, 1, Len(chain) - 1)]

Init ==
    /\ string \in Strings
    /\ res = [chain \in Chains |-> None]
    /\ c = None
    /\ diacritic = None
    /\ special = None

\* a call of niqqud::remove, on the text or on an earlier result
CallRemove(chain) ==
    /\ chain[Len(chain)] = "remove"
    /\ res[chain] = None
    /\ Arg(chain) # None
    /\ res' = [res EXCEPT ![chain] = Some(remove(Arg(chain)[1]))]
    /\ UNCHANGED <<string, c, diacritic, special>>

\* a call of niqqud::remove_thorough, on the text or on an earlier result
CallRemoveThorough(chain) ==
    /\ chain[Len(chain)] = "remove_thorough"
    /\ res[chain] = None
    /\ Arg(chain) # None
    /\ res' = [res EXCEPT ![chain] = Some(remove_thorough(Arg(chain)[1]))]
    /\ UNCHANGED <<string, c, diacritic, special>>

Next ==
    \/ \E chain \in Chains : CallRemove(chain)
    \/ \E chain \in Chains : CallRemoveThorough(chain)

Spec == Init /\ [][Next]_vars

----------------------------------------------------------------------------
(* The predicates on their own: one char, classified by both *)

InitChar ==
    /\ string = <<>>
    /\ res = [chain \in Chains |-> None]
    /\ c \in {Some(ch) : ch \in CharSample}
    /\ diacritic = None
    /\ special = None

CallIsDiacritic ==
    /\ diacritic = None
    /\ diacritic' = Some(is_diacritic(c[1]))
    /\ UNCHANGED <<string, res, c, special>>

CallIsSpecial ==
    /\ special = None
    /\ special' = Some(is_special(c[1]))
    /\ UNCHANGED <<string, res, c, diacritic>>

NextChar == CallIsDiacritic \/ CallIsSpecial

SpecChar == InitChar /\ [][NextChar]_vars

----------------------------------------------------------------------------
(* Vocabulary of the properties *)

\* the inclusive range U+0590..U+05CF
HebrewMarks == 1424 .. 1487
\* the inclusive range U+05EB..U+05FF
HebrewTail == 1515 .. 1535
\* the Hebrew letters U+05D0..U+05EA
HebrewLetters == 1488 .. 1514

RECURSIVE Without(_, _)
\* cs with every char of the set S deleted, the others in their order
Without(cs, S) ==
    IF cs = <<>> THEN <<>>
    ELSE IF Head(cs) \in S THEN Without(Tail(cs), S)
    ELSE <<Head(cs)>> \o Without(Tail(cs), S)

RECURSIVE IsSubseq(_, _)
\* s is obtained from t by deleting items
IsSubseq(s, t) ==
    IF s = <<>> THEN TRUE
    ELSE IF t = <<>> THEN FALSE
    ELSE IF Head(s) = Head(t) THEN IsSubseq(Tail(s), Tail(t))
    ELSE IsSubseq(s, Tail(t))

\* how many times ch occurs in cs
Count(cs, ch) == Cardinality({i \in 1 .. Len(cs) : cs[i] = ch})

\* some char of cs lies in S
Has(cs, S) == \E i \in 1 .. Len(cs) : cs[i] \in S

\* the chain's last call is a call of f
Calls(chain, f) == chain[Len(chain)] = f

R == <<"remove">>
T == <<"remove_thorough">>
RR == <<"remove", "remove">>
TT == <<"remove_thorough", "remove_thorough">>
RT == <<"remove", "remove_thorough">>
TR == <<"remove_thorough", "remove">>

----------------------------------------------------------------------------
(* C1 *)

\* C1: whatever text remove is called with, the string it returns holds
\* exactly the chars of the text outside U+0590..U+05CF, in their order, and
\* is the UTF-8 encoding of those chars.
C1_RemoveDeletesExactlyTheMarks ==
    \A chain \in Chains :
        (Calls(chain, "remove") /\ res[chain] # None) =>
            LET kept == Without(Chars(Arg(chain)[1]), HebrewMarks) IN
            /\ Chars(res[chain][1]) = kept
            /\ res[chain][1] = Collect(kept)

\* remove has returned on a text of a quote, a point and a letter
C1_Witness ==
    /\ string = Collect(<<Gershayim, Qamats, Shin>>)
    /\ res[R] = Some(Collect(<<Gershayim, Shin>>))

----------------------------------------------------------------------------
(* C2 *)

\* C2: whatever text remove_thorough is called with, the string it returns
\* holds exactly the chars of the text outside U+0590..U+05CF and outside
\* U+05EB..U+05FF, in their order.
C2_ThoroughDeletesMarksAndTail ==
    \A chain \in Chains :
        (Calls(chain, "remove_thorough") /\ res[chain] # None) =>
            LET kept == Without(Chars(Arg(chain)[1]), HebrewMarks \cup HebrewTail) IN
            /\ Chars(res[chain][1]) = kept
            /\ res[chain][1] = Collect(kept)

\* remove_thorough has returned on a text of a quote, a point and a letter
C2_Witness ==
    /\ string = Collect(<<Gershayim, Qamats, Shin>>)
    /\ res[T] = Some(Collect(<<Shin>>))

----------------------------------------------------------------------------
(* C3 *)

\* C3: on one text, the result of remove_thorough is a subsequence of the
\* result of remove, and every char remove dropped is missing from it as well.
C3_ThoroughIsSubseqOfRemove ==
    (res[R] # None /\ res[T] # None) =>
        LET r == Chars(res[R][1])
            t == Chars(res[T][1])
        IN /\ IsSubseq(t, r)
           /\ \A ch \in Alphabet :
                  Count(r, ch) < Count(Chars(string), ch) => Count(t, ch) = 0

\* both functions have returned on a text where remove drops one char and
\* remove_thorough two
C3_Witness ==
    /\ string = Collect(<<Shin, Qamats, Geresh>>)
    /\ res[R] = Some(Collect(<<Shin, Geresh>>))
    /\ res[T] = Some(Collect(<<Shin>>))

----------------------------------------------------------------------------
(* C4 *)

\* C4: calling remove on what remove returned gives the same string back,
\* and so does calling remove_thorough on what remove_thorough returned.
C4_Idempotent ==
    /\ res[RR] # None => res[RR] = res[R]
    /\ res[TT] # None => res[TT] = res[T]

\* both functions have been called twice in a row on a text with two
\* adjacent marks and a quote, and the first calls dropped something
C4_Witness ==
    /\ string = Collect(<<Qamats, SofPasuq, Gershayim>>)
    /\ res[RR] = Some(Collect(<<Gershayim>>))
    /\ res[TT] = Some(<<>>)

----------------------------------------------------------------------------
(* C5 *)

\* the result of every call made so far is a subsequence of its argument
\* and no longer than it, in chars and in bytes
OutputIsSubseqOfInput ==
    \A chain \in Chains :
        res[chain] # None =>
            LET a == Arg(chain)[1]
                o == res[chain][1]
            IN /\ IsSubseq(Chars(o), Chars(a))
               /\ Len(Chars(o)) <= Len(Chars(a))
               /\ Len(o) <= Len(a)

\* C5: the output of either function is always a subsequence of its input,
\* never longer than it, and no call changes the caller's text.
C5_OnlyDrops == []OutputIsSubseqOfInput /\ [][string' = string]_vars

\* remove_thorough has dropped the middle char of a text and kept its ends
C5_Witness ==
    /\ string = Collect(<<Space, SpecialLast, Shin>>)
    /\ res[T] = Some(Collect(<<Space, Shin>>))
    /\ res[R] = Some(string)

----------------------------------------------------------------------------
(* C6 *)

Quotes == {Gershayim, Geresh}

\* C6: on one text, remove keeps every gershayim and every geresh and
\* remove_thorough keeps none; the two results differ when the text holds such
\* a quote and are equal when it holds no char of U+05EB..U+05FF.
C6_QuotesKeptByRemoveOnly ==
    (res[R] # None /\ res[T] # None) =>
        LET cs == Chars(string) IN
        /\ \A q \in Quotes :
              /\ Count(Chars(res[R][1]), q) = Count(cs, q)
              /\ Count(Chars(res[T][1]), q) = 0
        /\ Has(cs, Quotes) => res[R] # res[T]
        /\ ~Has(cs, HebrewTail) => res[R] = res[T]

\* both functions have returned on a text quoted with a geresh and a gershayim
C6_Witness ==
    /\ string = Collect(<<Geresh, Shin, Gershayim>>)
    /\ res[R] = Some(string)
    /\ res[T] = Some(Collect(<<Shin>>))

----------------------------------------------------------------------------
(* C7 *)

\* the chars a call of f removes
Removable(f) == IF f = "remove" THEN HebrewMarks ELSE HebrewMarks \cup HebrewTail

\* C7: either function can be called with the empty text, and every call
\* made has returned a well-formed string; the empty text gives the empty
\* string, a text without removable chars gives an equal string, a text of
\* chars of U+0590..U+05CF alone gives the empty string.
C7_EdgeCases ==
    /\ (string = <<>> /\ res[R] = None) => ENABLED CallRemove(R)
    /\ (string = <<>> /\ res[T] = None) => ENABLED CallRemoveThorough(T)
    /\ \A chain \in Chains :
          res[chain] # None =>
              LET a == Arg(chain)[1]
                  o == res[chain][1]
                  f == chain[Len(chain)]
              IN /\ o = Collect(Chars(o))
                 /\ a = <<>> => o = <<>>
                 /\ ~Has(Chars(a), Removable(f)) => o = a
                 /\ (\A i \in 1 .. Len(Chars(a)) : Chars(a)[i] \in HebrewMarks) => o = <<>>

\* the three edge cases have happened: a text of marks alone emptied by both
\* functions, and the empty result returned unchanged by a second call
C7_Witness ==
    /\ string = Collect(<<SofPasuq, Qamats, DiacriticLast>>)
    /\ res[R] = Some(<<>>)
    /\ res[T] = Some(<<>>)
    /\ res[RT] = Some(<<>>)

\* a text without Hebrew content has come back unchanged from both functions
C7_WitnessUnchanged ==
    /\ string = Collect(<<Space, 64302, 128512>>)
    /\ res[R] = Some(string)
    /\ res[T] = Some(string)

----------------------------------------------------------------------------
(* C8 *)

\* C8: each predicate can be called with every char and answers exactly by
\* its inclusive range, U+0590..U+05CF for is_diacritic and U+05EB..U+05FF
\* for is_special; no char gets TRUE from both, and a Hebrew letter gets
\* FALSE from both.
C8_ExactDisjointRanges ==
    /\ diacritic = None => ENABLED CallIsDiacritic
    /\ special = None => ENABLED CallIsSpecial
    /\ diacritic # None => (diacritic[1] <=> c[1] \in HebrewMarks)
    /\ special # None => (special[1] <=> c[1] \in HebrewTail)
    /\ ~(diacritic = Some(TRUE) /\ special = Some(TRUE))
    /\ c[1] \in HebrewLetters => (diacritic # Some(TRUE) /\ special # Some(TRUE))
    /\ c[1] \in {1423, 1488, 1514, 1536} =>
          (diacritic # Some(TRUE) /\ special # Some(TRUE))
    /\ c[1] \in {1424, 1487} => diacritic # Some(FALSE)
    /\ c[1] \in {1515, 1535} => special # Some(FALSE)

\* both predicates have answered for U+05CF, the last char of the first range
C8_Witness ==
    /\ c = Some(DiacriticLast)
    /\ diacritic = Some(TRUE)
    /\ special = Some(FALSE)

----------------------------------------------------------------------------
(* C9 *)

\* C9 as stated: is_special holds of gershayim, geresh and sof pasuq, so that
\* remove keeps every sof pasuq of the text and remove_thorough drops them.
C9_SofPasuqIsSpecial ==
    (res[R] # None /\ res[T] # None /\ Has(Chars(string), {SofPasuq})) =>
        /\ is_special(Gershayim) /\ is_special(Geresh) /\ is_special(SofPasuq)
        /\ Count(Chars(res[R][1]), SofPasuq) = Count(Chars(string), SofPasuq)
        /\ Count(Chars(res[T][1]), SofPasuq) = 0

\* C9 amended: is_special holds of gershayim and geresh and not of sof pasuq,
\* which is_diacritic holds of; remove keeps the two quotes and drops every
\* sof pasuq, remove_thorough drops the quotes and every sof pasuq.
C9_SofPasuqIsDiacritic ==
    (res[R] # None /\ res[T] # None) =>
        LET cs == Chars(string) IN
        /\ is_special(Gershayim) /\ is_special(Geresh)
        /\ ~is_special(SofPasuq) /\ is_diacritic(SofPasuq)
        /\ Count(Chars(res[R][1]), SofPasuq) = 0
        /\ Count(Chars(res[T][1]), SofPasuq) = 0
        /\ \A q \in Quotes :
              /\ Count(Chars(res[R][1]), q) = Count(cs, q)
              /\ Count(Chars(res[T][1]), q) = 0

\* both functions have returned on a text of a letter, a sof pasuq and a
\* gershayim
C9_Witness ==
    /\ string = Collect(<<Shin, SofPasuq, Gershayim>>)
    /\ res[R] = Some(Collect(<<Shin, Gershayim>>))
    /\ res[T] = Some(Collect(<<Shin>>))

----------------------------------------------------------------------------
(* C10 *)

\* the text cut after its first k chars
Prefix(k) == Collect(SubSeq(Chars(string), 1, k))
Suffix(k) == Collect(SubSeq(Chars(string), k + 1, Len(Chars(string))))

\* C10: remove_thorough after remove and remove after remove_thorough both
\* return what remove_thorough alone returns; and wherever the text is cut in
\* two, the result of either function on the text is the concatenation of its
\* results on the two parts.
C10_CommuteAndDistribute ==
    /\ (res[RT] # None /\ res[T] # None) => res[RT] = res[T]
    /\ (res[TR] # None /\ res[T] # None) => res[TR] = res[T]
    /\ (res[RT] # None /\ res[TR] # None) => res[RT] = res[TR]
    /\ res[R] # None =>
          \A k \in 0 .. Len(Chars(string)) :
              res[R][1] = remove(Prefix(k)) \o remove(Suffix(k))
    /\ res[T] # None =>
          \A k \in 0 .. Len(Chars(string)) :
              res[T][1] = remove_thorough(Prefix(k)) \o remove_thorough(Suffix(k))

\* the two mixed chains and remove_thorough alone have returned on a text
\* where each function drops something the other keeps or drops
C10_Witness ==
    /\ string = Collect(<<Shin, Gershayim, Qamats>>)
    /\ res[RT] = Some(Collect(<<Shin>>))
    /\ res[TR] = Some(Collect(<<Shin>>))
    /\ res[T] = Some(Collect(<<Shin>>))
    /\ res[R] = Some(Collect(<<Shin, Gershayim>>))

====
